---- MODULE Spec2Model ----
(***************************************************************************)
(* shared_future_adaptor<Future> (src/shared_future_adaptor.hpp).          *)
(*                                                                         *)
(* An adaptor object holds variant_ptr_, a shared_ptr to a                 *)
(* std::variant<Future, result_type>.  Every holder below is one adaptor   *)
(* object used by one thread.  The source has no lock and no atomic, so    *)
(* each public operation is split at the points where another thread can   *)
(* run: the std::visit dispatch (which reads the variant's index), the     *)
(* call on the underlying future, the assignment to the variant, and the   *)
(* recursive visit.  A call on a future that was already consumed, or      *)
(* that was destroyed by another thread's assignment, and a dereference    *)
(* of an empty variant_ptr_, are undefined behaviour: they are modelled    *)
(* as a choice among the outcomes a build can give.                        *)
(***************************************************************************)
EXTENDS Naturals, FiniteSets, TLC

NumHolders == 2
NumSources == 1
MaxCalls == 4

Holders == 1..NumHolders
Sources == 1..NumSources
Cells == 1..(NumSources + 1)
Null == 0

Values == {"v1", "v2"}
Failure == "UnderlyingFailure"
Indeterminate == "indeterminate"

VARIABLES
  srcValid,     \* srcValid[s]: unique_future.is_valid() of source object s
  completed,    \* completed[s]: the computation behind source s has finished
  outcome,      \* outcome[s]: what that computation produced (a value or Failure)
  retrievals,   \* retrievals[s]: invocations of the underlying future's get()
  cell,         \* cell[c]: the variant object *variant_ptr_ of State c
  nextCell,     \* the next State std::make_shared allocates
  alive,        \* alive[h]: adaptor object h exists
  ptr,          \* ptr[h]: variant_ptr_ of adaptor h
  pc,           \* pc[h]: where the thread of holder h is inside its call
  local,        \* local[h]: the temporary `result` of get_visitor
  ret,          \* ret[h]: how the last call of h ended
  call,         \* call[h]: what the current/last call of h did (history)
  first,        \* first[s]: the value the first returning get() gave, and who got it
  calls         \* calls started so far

vars == <<srcValid, completed, outcome, retrievals, cell, nextCell, alive, ptr,
          pc, local, ret, call, first, calls>>

FreeCell == [life |-> "free", tag |-> "None", futValid |-> FALSE, comp |-> 0,
             result |-> "none", flips |-> 0]

NoRet == [kind |-> "none", val |-> "none"]
NoCall == [op |-> "none", arg |-> 0, branch |-> "none", nretr |-> 0, nstore |-> 0,
           thrown |-> "none", answer |-> "none", late |-> FALSE]
NoFirst == [val |-> "none", by |-> 0]

\* The record of a call of `op` that holder h starts now.
StartCall(h, op) ==
  [NoCall EXCEPT !.op = op,
                 !.late = (ptr[h] # Null /\ first[cell[ptr[h]].comp].val # "none")]

BoolStr(b) == IF b THEN "true" ELSE "false"

Init ==
  /\ srcValid \in [Sources -> BOOLEAN]
  /\ completed = [s \in Sources |-> FALSE]
  /\ outcome = [s \in Sources |-> "none"]
  /\ retrievals = [s \in Sources |-> 0]
  /\ cell = [c \in Cells |-> FreeCell]
  /\ nextCell = 1
  /\ alive = [h \in Holders |-> FALSE]
  /\ ptr = [h \in Holders |-> Null]
  /\ pc = [h \in Holders |-> "idle"]
  /\ local = [h \in Holders |-> "none"]
  /\ ret = [h \in Holders |-> NoRet]
  /\ call = [h \in Holders |-> NoCall]
  /\ first = [s \in Sources |-> NoFirst]
  /\ calls = 0

----------------------------------------------------------------------------
(* The underlying computation (external): it completes at some point, with *)
(* a value or with a failure.                                              *)
Complete(s) ==
  /\ ~completed[s]
  /\ completed' = [completed EXCEPT ![s] = TRUE]
  /\ \E o \in Values \cup {Failure} : outcome' = [outcome EXCEPT ![s] = o]
  /\ UNCHANGED <<srcValid, retrievals, cell, nextCell, alive, ptr, pc, local,
                 ret, call, first, calls>>

----------------------------------------------------------------------------
(* Construction, copy, destruction.                                        *)

\* The variant built by std::make_shared<variant_type>(std::move(unique_future)).
PendingState(s) ==
  [life |-> "live", tag |-> "Pending", futValid |-> TRUE, comp |-> s,
   result |-> "none", flips |-> 0]

\* Mutant of MovedFromValid: the source is left valid by the construction.
MovedFromStillValid == TRUE

\* is_valid() of a future that has been moved from.
MovedFromValid == FALSE

\* Mutant of Construct: no is_valid() check, a State is always allocated.
ConstructUnchecked(h, s) ==
  /\ ~alive[h]
  /\ calls < MaxCalls
  /\ nextCell \in Cells
  /\ cell' = [cell EXCEPT ![nextCell] = PendingState(s)]
  /\ ptr' = [ptr EXCEPT ![h] = nextCell]
  /\ nextCell' = nextCell + 1
  /\ srcValid' = [srcValid EXCEPT ![s] = MovedFromValid]
  /\ alive' = [alive EXCEPT ![h] = TRUE]
  /\ call' = [call EXCEPT ![h] = [NoCall EXCEPT !.op = "construct", !.arg = s]]
  /\ ret' = [ret EXCEPT ![h] = [kind |-> "void", val |-> "none"]]
  /\ calls' = calls + 1
  /\ UNCHANGED <<completed, outcome, retrievals, pc, local, first>>

Construct(h, s) ==
  /\ ~alive[h]
  /\ calls < MaxCalls
  /\ IF srcValid[s]
       THEN /\ nextCell \in Cells
            /\ cell' = [cell EXCEPT ![nextCell] = PendingState(s)]
            /\ ptr' = [ptr EXCEPT ![h] = nextCell]
            /\ nextCell' = nextCell + 1
            /\ srcValid' = [srcValid EXCEPT ![s] = MovedFromValid]
       ELSE /\ ptr' = [ptr EXCEPT ![h] = Null]
            /\ UNCHANGED <<cell, nextCell, srcValid>>
  /\ alive' = [alive EXCEPT ![h] = TRUE]
  /\ call' = [call EXCEPT ![h] = [NoCall EXCEPT !.op = "construct", !.arg = s]]
  /\ ret' = [ret EXCEPT ![h] = [kind |-> "void", val |-> "none"]]
  /\ calls' = calls + 1
  /\ UNCHANGED <<completed, outcome, retrievals, pc, local, first>>

\* Mutant of Copy: the copy gets a State of its own, a copy of the variant.
CopyDeep(h, g) ==
  /\ ~alive[h]
  /\ alive[g]
  /\ calls < MaxCalls
  /\ IF ptr[g] = Null
       THEN ptr' = [ptr EXCEPT ![h] = Null] /\ UNCHANGED <<cell, nextCell>>
       ELSE /\ nextCell \in Cells
            /\ cell' = [cell EXCEPT ![nextCell] = cell[ptr[g]]]
            /\ ptr' = [ptr EXCEPT ![h] = nextCell]
            /\ nextCell' = nextCell + 1
  /\ alive' = [alive EXCEPT ![h] = TRUE]
  /\ call' = [call EXCEPT ![h] = [NoCall EXCEPT !.op = "copy", !.arg = g]]
  /\ ret' = [ret EXCEPT ![h] = [kind |-> "void", val |-> "none"]]
  /\ calls' = calls + 1
  /\ UNCHANGED <<srcValid, completed, outcome, retrievals, pc, local, first>>

\* Mutant of Copy: the copy's variant_ptr_ is left empty.
CopyEmpty(h, g) ==
  /\ ~alive[h]
  /\ alive[g]
  /\ calls < MaxCalls
  /\ ptr' = [ptr EXCEPT ![h] = Null]
  /\ alive' = [alive EXCEPT ![h] = TRUE]
  /\ call' = [call EXCEPT ![h] = [NoCall EXCEPT !.op = "copy", !.arg = g]]
  /\ ret' = [ret EXCEPT ![h] = [kind |-> "void", val |-> "none"]]
  /\ calls' = calls + 1
  /\ UNCHANGED <<srcValid, completed, outcome, retrievals, cell, nextCell, pc,
                 local, first>>

\* The implicit copy constructor: variant_ptr_ is copied, the State is shared.
Copy(h, g) ==
  /\ ~alive[h]
  /\ alive[g]
  /\ calls < MaxCalls
  /\ ptr' = [ptr EXCEPT ![h] = ptr[g]]
  /\ alive' = [alive EXCEPT ![h] = TRUE]
  /\ call' = [call EXCEPT ![h] = [NoCall EXCEPT !.op = "copy", !.arg = g]]
  /\ ret' = [ret EXCEPT ![h] = [kind |-> "void", val |-> "none"]]
  /\ calls' = calls + 1
  /\ UNCHANGED <<srcValid, completed, outcome, retrievals, cell, nextCell, pc,
                 local, first>>

\* Mutant of Destroy: the destructor destroys the State it points to, other
\* holders or not.
DestroyState(h) ==
  /\ alive[h]
  /\ pc[h] = "idle"
  /\ calls < MaxCalls
  /\ alive' = [alive EXCEPT ![h] = FALSE]
  /\ ptr' = [ptr EXCEPT ![h] = Null]
  /\ cell' = IF ptr[h] # Null
               THEN [cell EXCEPT ![ptr[h]].life = "destroyed"]
               ELSE cell
  /\ call' = [call EXCEPT ![h] = [NoCall EXCEPT !.op = "destroy"]]
  /\ ret' = [ret EXCEPT ![h] = NoRet]
  /\ calls' = calls + 1
  /\ UNCHANGED <<srcValid, completed, outcome, retrievals, nextCell, pc, local,
                 first>>

\* The implicit destructor: the shared_ptr releases the State; the last
\* release destroys it.
Destroy(h) ==
  /\ alive[h]
  /\ pc[h] = "idle"
  /\ calls < MaxCalls
  /\ alive' = [alive EXCEPT ![h] = FALSE]
  /\ ptr' = [ptr EXCEPT ![h] = Null]
  /\ cell' = IF ptr[h] # Null /\ \A g \in Holders \ {h} : ptr[g] # ptr[h]
               THEN [cell EXCEPT ![ptr[h]].life = "destroyed"]
               ELSE cell
  /\ call' = [call EXCEPT ![h] = [NoCall EXCEPT !.op = "destroy"]]
  /\ ret' = [ret EXCEPT ![h] = NoRet]
  /\ calls' = calls + 1
  /\ UNCHANGED <<srcValid, completed, outcome, retrievals, nextCell, pc, local,
                 first>>

----------------------------------------------------------------------------
(* valid()                                                                 *)
Valid(h) ==
  /\ alive[h]
  /\ pc[h] = "idle"
  /\ calls < MaxCalls
  /\ call' = [call EXCEPT ![h] = StartCall(h, "valid")]
  /\ ret' = [ret EXCEPT ![h] = [kind |-> "bool", val |-> BoolStr(ptr[h] # Null)]]
  /\ calls' = calls + 1
  /\ UNCHANGED <<srcValid, completed, outcome, retrievals, cell, nextCell,
                 alive, ptr, pc, local, first>>

----------------------------------------------------------------------------
(* *variant_ptr_ with an empty variant_ptr_: is_ready(), wait() and get()  *)
(* dereference it without a check.  Undefined behaviour: the call crashes  *)
(* or goes on with whatever is at that address.                            *)
NullDerefOutcomes ==
  {[kind |-> "crash", val |-> "segfault"],
   [kind |-> "value", val |-> Indeterminate]}

NullDeref(h) ==
  /\ alive[h]
  /\ pc[h] = "idle"
  /\ calls < MaxCalls
  /\ ptr[h] = Null
  /\ \E op \in {"is_ready", "wait", "get"} :
       call' = [call EXCEPT ![h] = StartCall(h, op)]
  /\ \E o \in NullDerefOutcomes : ret' = [ret EXCEPT ![h] = o]
  /\ calls' = calls + 1
  /\ UNCHANGED <<srcValid, completed, outcome, retrievals, cell, nextCell,
                 alive, ptr, pc, local, first>>

----------------------------------------------------------------------------
(* std::visit: the overload it calls is chosen by the variant's index.     *)

\* Mutant of Visit: the Future overload is called whatever the index is.
VisitFuture(c) == "Pending"

Visit(c) == cell[c].tag

\* The variant after a change of its index (flips counts the changes).
SetTag(v, t) == [v EXCEPT !.tag = t, !.flips = IF v.tag = t THEN @ ELSE @ + 1]

\* The underlying future of State c is the live, unconsumed alternative of
\* the variant.  Otherwise a reference to it, taken by an earlier visit, is
\* a reference to a consumed or to a destroyed future.
FutureUsable(c) == cell[c].tag = "Pending" /\ cell[c].futValid

----------------------------------------------------------------------------
(* is_ready()                                                              *)

\* Mutant of ReadyAnswer: the result overload answers false.
ReadyAnswerNot == FALSE

\* is_ready_visitor::operator()(const result_type&)
ReadyAnswer == TRUE

\* is_ready_visitor::operator()(const Future&): the answers of
\* underlying_future.is_ready().
FutureIsReady(c) ==
  IF FutureUsable(c) THEN {completed[cell[c].comp]} ELSE BOOLEAN

IsReadyVisit(h) ==
  /\ alive[h]
  /\ pc[h] = "idle"
  /\ calls < MaxCalls
  /\ ptr[h] # Null
  /\ LET c == ptr[h]
         b == Visit(c)
     IN /\ call' = [call EXCEPT ![h] = [StartCall(h, "is_ready") EXCEPT !.branch = b]]
        /\ IF b = "Ready"
             THEN /\ ret' = [ret EXCEPT ![h] = [kind |-> "bool", val |-> BoolStr(ReadyAnswer)]]
                  /\ pc' = pc
             ELSE /\ ret' = [ret EXCEPT ![h] = NoRet]
                  /\ pc' = [pc EXCEPT ![h] = "is_ready_call"]
  /\ calls' = calls + 1
  /\ UNCHANGED <<srcValid, completed, outcome, retrievals, cell, nextCell,
                 alive, ptr, local, first>>

\* Mutant of IsReadyCall: the Future overload asks by consuming the future.
IsReadyCallConsuming(h) ==
  /\ pc[h] = "is_ready_call"
  /\ \E a \in FutureIsReady(ptr[h]) :
       /\ ret' = [ret EXCEPT ![h] = [kind |-> "bool", val |-> BoolStr(a)]]
       /\ call' = [call EXCEPT ![h].answer = BoolStr(a)]
  /\ pc' = [pc EXCEPT ![h] = "idle"]
  /\ retrievals' = [retrievals EXCEPT ![cell[ptr[h]].comp] = @ + 1]
  /\ cell' = [cell EXCEPT ![ptr[h]].futValid = FALSE]
  /\ UNCHANGED <<srcValid, completed, outcome, nextCell, alive, ptr, local,
                 first, calls>>

IsReadyCall(h) ==
  /\ pc[h] = "is_ready_call"
  /\ \E a \in FutureIsReady(ptr[h]) :
       /\ ret' = [ret EXCEPT ![h] = [kind |-> "bool", val |-> BoolStr(a)]]
       /\ call' = [call EXCEPT ![h].answer = BoolStr(a)]
  /\ pc' = [pc EXCEPT ![h] = "idle"]
  /\ UNCHANGED <<srcValid, completed, outcome, retrievals, cell, nextCell,
                 alive, ptr, local, first, calls>>

----------------------------------------------------------------------------
(* wait()                                                                  *)
WaitVisit(h) ==
  /\ alive[h]
  /\ pc[h] = "idle"
  /\ calls < MaxCalls
  /\ ptr[h] # Null
  /\ LET c == ptr[h]
         b == Visit(c)
     IN /\ call' = [call EXCEPT ![h] = [StartCall(h, "wait") EXCEPT !.branch = b]]
        /\ IF b = "Ready"
             THEN /\ ret' = [ret EXCEPT ![h] = [kind |-> "void", val |-> "none"]]
                  /\ pc' = pc
             ELSE /\ ret' = [ret EXCEPT ![h] = NoRet]
                  /\ pc' = [pc EXCEPT ![h] = "wait_call"]
  /\ calls' = calls + 1
  /\ UNCHANGED <<srcValid, completed, outcome, retrievals, cell, nextCell,
                 alive, ptr, local, first>>

\* Mutant of WaitCall: the Future overload waits by calling get().
WaitCallConsuming(h) ==
  /\ pc[h] = "wait_call"
  /\ FutureUsable(ptr[h]) => completed[cell[ptr[h]].comp]
  /\ ret' = [ret EXCEPT ![h] = [kind |-> "void", val |-> "none"]]
  /\ call' = [call EXCEPT ![h].answer = BoolStr(completed[cell[ptr[h]].comp])]
  /\ pc' = [pc EXCEPT ![h] = "idle"]
  /\ retrievals' = [retrievals EXCEPT ![cell[ptr[h]].comp] = @ + 1]
  /\ cell' = [cell EXCEPT ![ptr[h]].futValid = FALSE]
  /\ UNCHANGED <<srcValid, completed, outcome, nextCell, alive, ptr, local,
                 first, calls>>

\* underlying_future.wait(): blocks until the computation has completed; on
\* a consumed or destroyed future it may return at any time.
WaitCall(h) ==
  /\ pc[h] = "wait_call"
  /\ FutureUsable(ptr[h]) => completed[cell[ptr[h]].comp]
  /\ ret' = [ret EXCEPT ![h] = [kind |-> "void", val |-> "none"]]
  /\ call' = [call EXCEPT ![h].answer = BoolStr(completed[cell[ptr[h]].comp])]
  /\ pc' = [pc EXCEPT ![h] = "idle"]
  /\ UNCHANGED <<srcValid, completed, outcome, retrievals, cell, nextCell,
                 alive, ptr, local, first, calls>>

----------------------------------------------------------------------------
(* get()                                                                   *)

\* get() returns with a reference to the stored result: the caller reads v.
ReturnValue(h, v) ==
  /\ ret' = [ret EXCEPT ![h] = [kind |-> "value", val |-> v]]
  /\ first' = LET k == cell[ptr[h]].comp
              IN IF first[k].val = "none"
                   THEN [first EXCEPT ![k] = [val |-> v, by |-> h]]
                   ELSE first

GetVisit(h) ==
  /\ alive[h]
  /\ pc[h] = "idle"
  /\ calls < MaxCalls
  /\ ptr[h] # Null
  /\ LET c == ptr[h]
         b == Visit(c)
     IN /\ call' = [call EXCEPT ![h] = [StartCall(h, "get") EXCEPT !.branch = b]]
        /\ IF b = "Ready"
             THEN /\ ReturnValue(h, cell[c].result)
                  /\ pc' = pc
             ELSE /\ ret' = [ret EXCEPT ![h] = NoRet]
                  /\ pc' = [pc EXCEPT ![h] = "get_retrieve"]
                  /\ first' = first
  /\ calls' = calls + 1
  /\ UNCHANGED <<srcValid, completed, outcome, retrievals, cell, nextCell,
                 alive, ptr, local>>

\* Mutant of Propagate: the exception is caught and get() goes on to store a
\* default result.
Swallow(h, e) ==
  /\ local' = [local EXCEPT ![h] = Indeterminate]
  /\ pc' = [pc EXCEPT ![h] = "get_store"]
  /\ ret' = ret

\* An exception e thrown by underlying_future.get() leaves get_visitor and
\* get(): nothing catches it.
Propagate(h, e) ==
  /\ ret' = [ret EXCEPT ![h] = [kind |-> "error", val |-> e]]
  /\ pc' = [pc EXCEPT ![h] = "idle"]
  /\ local' = local

\* result_type result = underlying_future.get() gave v.
Retrieved(h, v) ==
  /\ local' = [local EXCEPT ![h] = v]
  /\ pc' = [pc EXCEPT ![h] = "get_store"]
  /\ ret' = ret

\* What underlying_future.get() can do on the future of State c: give a value
\* or throw.  A usable future gives what the computation produced.  A future
\* that was consumed before, or destroyed by another thread's assignment,
\* throws or gives anything.
FutureGet(c) ==
  IF FutureUsable(c)
    THEN {[thrown |-> outcome[cell[c].comp] \notin Values, val |-> outcome[cell[c].comp]]}
    ELSE {[thrown |-> TRUE, val |-> "NoState"], [thrown |-> FALSE, val |-> Indeterminate]}

\* result_type result = underlying_future.get();
GetRetrieve(h) ==
  /\ pc[h] = "get_retrieve"
  /\ LET c == ptr[h]
         k == cell[c].comp
     IN \* a usable future blocks until the computation has completed
        /\ FutureUsable(c) => completed[k]
        /\ retrievals' = [retrievals EXCEPT ![k] = @ + 1]
        /\ cell' = [cell EXCEPT ![c].futValid = IF FutureUsable(c) THEN FALSE ELSE @]
        /\ \E r \in FutureGet(c) :
             /\ call' = [call EXCEPT ![h].nretr = @ + 1,
                                     ![h].thrown = IF r.thrown THEN r.val ELSE "none"]
             /\ IF r.thrown THEN Propagate(h, r.val) ELSE Retrieved(h, r.val)
  /\ UNCHANGED <<srcValid, completed, outcome, nextCell, alive, ptr, first, calls>>

\* Mutant of Assign: assigning to a variant that already holds a result puts
\* the Future alternative back.
AssignToggle(v, r) ==
  IF v.tag = "Ready"
    THEN [SetTag(v, "Pending") EXCEPT !.result = "none"]
    ELSE [SetTag(v, "Ready") EXCEPT !.result = r, !.futValid = FALSE]

\* self = std::move(result);
Assign(v, r) == [SetTag(v, "Ready") EXCEPT !.result = r, !.futValid = FALSE]

GetStore(h) ==
  /\ pc[h] = "get_store"
  /\ cell' = [cell EXCEPT ![ptr[h]] = Assign(@, local[h])]
  /\ local' = [local EXCEPT ![h] = "none"]
  /\ call' = [call EXCEPT ![h].nstore = @ + 1]
  /\ pc' = [pc EXCEPT ![h] = "get_recurse"]
  /\ UNCHANGED <<srcValid, completed, outcome, retrievals, nextCell, alive, ptr,
                 ret, first, calls>>

\* return std::visit(*this, self);
GetRecurse(h) ==
  /\ pc[h] = "get_recurse"
  /\ IF Visit(ptr[h]) = "Ready"
       THEN /\ ReturnValue(h, cell[ptr[h]].result)
            /\ pc' = [pc EXCEPT ![h] = "idle"]
       ELSE /\ pc' = [pc EXCEPT ![h] = "get_retrieve"]
            /\ UNCHANGED <<ret, first>>
  /\ UNCHANGED <<srcValid, completed, outcome, retrievals, cell, nextCell,
                 alive, ptr, local, call, calls>>

----------------------------------------------------------------------------
(* A call on a future that was consumed before, or destroyed by another    *)
(* thread's assignment, is undefined: besides the outcomes above, the      *)
(* thread may crash or hang inside it and never return.                    *)
Stuck(h) ==
  /\ pc[h] \in {"is_ready_call", "wait_call", "get_retrieve"}
  /\ ~FutureUsable(ptr[h])
  /\ pc' = [pc EXCEPT ![h] = "stuck"]
  /\ IF pc[h] = "get_retrieve"
       THEN /\ retrievals' = [retrievals EXCEPT ![cell[ptr[h]].comp] = @ + 1]
            /\ call' = [call EXCEPT ![h].nretr = @ + 1]
       ELSE UNCHANGED <<retrievals, call>>
  /\ UNCHANGED <<srcValid, completed, outcome, cell, nextCell, alive, ptr,
                 local, ret, first, calls>>

\* The steps by which a call that has started goes on and returns.
Continue(h) ==
  \/ IsReadyCall(h)
  \/ WaitCall(h)
  \/ GetRetrieve(h)
  \/ GetStore(h)
  \/ GetRecurse(h)

----------------------------------------------------------------------------
Next ==
  \/ \E s \in Sources : Complete(s)
  \/ \E h \in Holders, s \in Sources : Construct(h, s)
  \/ \E h, g \in Holders : Copy(h, g)
  \/ \E h \in Holders : Destroy(h)
  \/ \E h \in Holders : Valid(h)
  \/ \E h \in Holders : NullDeref(h)
  \/ \E h \in Holders : IsReadyVisit(h)
  \/ \E h \in Holders : IsReadyCall(h)
  \/ \E h \in Holders : WaitVisit(h)
  \/ \E h \in Holders : WaitCall(h)
  \/ \E h \in Holders : GetVisit(h)
  \/ \E h \in Holders : GetRetrieve(h)
  \/ \E h \in Holders : GetStore(h)
  \/ \E h \in Holders : GetRecurse(h)
  \/ \E h \in Holders : Stuck(h)

Spec == Init /\ [][Next]_vars

\* Sequential use: holder h takes a step only while no other holder is
\* inside a call.
Quiet(h) == \A g \in Holders \ {h} : pc[g] = "idle"

SeqNext ==
  \/ \E s \in Sources : Complete(s)
  \/ \E h \in Holders, s \in Sources : Quiet(h) /\ Construct(h, s)
  \/ \E h, g \in Holders : Quiet(h) /\ Copy(h, g)
  \/ \E h \in Holders : Quiet(h) /\ Destroy(h)
  \/ \E h \in Holders : Quiet(h) /\ Valid(h)
  \/ \E h \in Holders : Quiet(h) /\ NullDeref(h)
  \/ \E h \in Holders : Quiet(h) /\ IsReadyVisit(h)
  \/ \E h \in Holders : Quiet(h) /\ IsReadyCall(h)
  \/ \E h \in Holders : Quiet(h) /\ WaitVisit(h)
  \/ \E h \in Holders : Quiet(h) /\ WaitCall(h)
  \/ \E h \in Holders : Quiet(h) /\ GetVisit(h)
  \/ \E h \in Holders : Quiet(h) /\ GetRetrieve(h)
  \/ \E h \in Holders : Quiet(h) /\ GetStore(h)
  \/ \E h \in Holders : Quiet(h) /\ GetRecurse(h)
  \/ \E h \in Holders : Quiet(h) /\ Stuck(h)

SpecSeq == Init /\ [][SeqNext]_vars

----------------------------------------------------------------------------
(* Properties.                                                             *)

\* Holder h has completed a call of op.
Done(h, op) == pc[h] = "idle" /\ call[h].op = op /\ ret[h].kind # "none"

\* The computation behind the State of holder h.
CompOf(h) == cell[ptr[h]].comp

\* C1: when threads holding copies of one valid adaptor call get()
\* concurrently while the State is Pending, the underlying future's consuming
\* retrieval is invoked exactly once: never twice, and once some get() has
\* returned, not zero times.  (Stated for computations that give a value, so
\* that no failed retrieval is involved.)
C1_ExactlyOneRetrieval ==
  \A s \in Sources :
    outcome[s] \in Values =>
      /\ retrievals[s] <= 1
      /\ first[s].val # "none" => retrievals[s] = 1

\* C2: every get() that returns yields the value the underlying computation
\* produced; none returns a moved-from or otherwise different value.
C2_SameStoredResult ==
  \A h \in Holders :
    (Done(h, "get") /\ ptr[h] # Null /\ ret[h].kind = "value"
       /\ outcome[CompOf(h)] \in Values)
      => ret[h].val = outcome[CompOf(h)]

\* C3: the tag of every State starts as Pending, changes only from Pending to
\* Ready, does so at most once, and once Ready never becomes Pending again.
C3_TagOneWay ==
  [][\A c \in Cells :
       /\ (cell[c].life = "free" /\ cell'[c].life # "free") => cell'[c].tag = "Pending"
       /\ (cell[c].life # "free" /\ cell'[c].tag # cell[c].tag)
            => (cell[c].tag = "Pending" /\ cell'[c].tag = "Ready")
       /\ cell[c].tag = "Ready" => cell'[c].tag = "Ready"
       /\ cell'[c].flips <= 1]_vars

\* C3 witness: two holders have both assigned to the same State, which is Ready
\* after one change of its tag.
C3_Witness ==
  \E h, g \in Holders :
    /\ h # g /\ ptr[h] # Null /\ ptr[h] = ptr[g]
    /\ call[h].nstore = 1 /\ call[g].nstore = 1
    /\ cell[ptr[h]].tag = "Ready" /\ cell[ptr[h]].flips = 1

C5_InvalidHandle ==
  \A h \in Holders :
    (alive[h] /\ ptr[h] = Null /\ pc[h] = "idle") =>
      /\ call[h].op = "valid" => ret[h].val = "false"
      /\ call[h].op \in {"is_ready", "wait", "get"}
           => ret[h] = [kind |-> "error", val |-> "InvalidHandle"]

\* C6: in sequential use, once the get() of one holder has returned a value,
\* a later get() of another holder sharing the State returns that same value
\* and does not invoke the consuming retrieval.
C6_CopySeesTransition ==
  \A h \in Holders :
    (ptr[h] # Null /\ call[h].op = "get" /\ call[h].late
       /\ first[CompOf(h)].by # h) =>
      /\ call[h].nretr = 0
      /\ call[h].branch = "Ready"
      /\ ret[h] = [kind |-> "value", val |-> first[CompOf(h)].val]
      /\ pc[h] = "idle"

\* C6 witness: holder g got the value first, holder h shares the State of g and
\* has completed a later get().
C6_Witness ==
  \E h, g \in Holders :
    /\ h # g /\ ptr[h] # Null /\ ptr[g] = ptr[h]
    /\ first[CompOf(h)].by = g
    /\ Done(h, "get") /\ call[h].late
    /\ Done(g, "get") /\ ~call[g].late /\ call[g].nretr = 1

\* C7: when the underlying retrieval throws, get() ends with that same failure,
\* stores no Ready value and does not invoke the retrieval again in that call.
C7_FailurePropagates ==
  \A h \in Holders :
    (call[h].op = "get" /\ call[h].thrown # "none") =>
      /\ pc[h] = "idle"
      /\ ret[h] = [kind |-> "error", val |-> call[h].thrown]
      /\ call[h].nstore = 0
      /\ call[h].nretr = 1

\* C7 witness: a get() has ended with the failure of the computation.
C7_Witness ==
  \E h \in Holders :
    /\ Done(h, "get") /\ ptr[h] # Null
    /\ call[h].thrown = Failure
    /\ outcome[CompOf(h)] = Failure
    /\ cell[ptr[h]].tag = "Pending"

\* C8: over the lifetime of a State, also when the first retrieval fails and
\* get() is called again, the consuming retrieval is attempted at most once.
C8_AtMostOneAttempt == \A s \in Sources : retrievals[s] <= 1

\* is_ready() of holder h returns in this step.
IsReadyReturns(h) ==
  /\ call'[h].op = "is_ready"
  /\ ptr[h] # Null
  /\ pc'[h] = "idle"
  /\ ret'[h].kind = "bool"
  /\ <<pc[h], call[h], ret[h]>> # <<pc'[h], call'[h], ret'[h]>>

ObserverStep(h) ==
  /\ call'[h].op \in {"is_ready", "valid"}
  /\ <<pc[h], call[h], ret[h]>> # <<pc'[h], call'[h], ret'[h]>>

\* C10: is_ready() and valid() leave the State unchanged: the tag, the wrapped
\* future and whether it is consumed, the cached result and the retrieval count
\* are the same after the call as before.
C10_ObserversFrame ==
  [][\A h \in Holders :
       ObserverStep(h) =>
         UNCHANGED <<cell, retrievals, srcValid, completed, outcome, ptr, alive,
                     nextCell>>]_vars

\* C10 witness: is_ready() went through the Future overload and returned true,
\* and the State still wraps the unconsumed future.
C10_Witness ==
  \E h \in Holders :
    /\ Done(h, "is_ready") /\ ptr[h] # Null
    /\ call[h].branch = "Pending" /\ ret[h].val = "true"
    /\ FutureUsable(ptr[h])
    /\ retrievals[CompOf(h)] = 0
    /\ \E g \in Holders : Done(g, "valid") /\ ptr[g] = ptr[h]

\* A step of wait() of holder h.
WaitStep(h) ==
  /\ call'[h].op = "wait"
  /\ ptr[h] # Null
  /\ <<pc[h], call[h], ret[h]>> # <<pc'[h], call'[h], ret'[h]>>

\* C11: wait() never changes the State's tag (nor anything else of the State)
\* and never invokes the consuming retrieval; when the State is Ready as
\* wait() visits it, wait() returns at once and calls nothing on the
\* underlying future.
C11_WaitFrame ==
  [][\A h \in Holders :
       WaitStep(h) =>
         /\ UNCHANGED <<cell, retrievals>>
         /\ call'[h].nretr = 0
         /\ (pc[h] = "idle" /\ cell[ptr[h]].tag = "Ready")
              => (pc'[h] = "idle" /\ ret'[h].kind = "void"
                    /\ call'[h].branch = "Ready" /\ call'[h].answer = "none")]_vars

\* C11 witness: the State became Ready through one holder's get(), and the
\* wait() of another holder sharing it has returned through the result
\* overload; the retrieval was invoked once, by the get().
C11_Witness ==
  \E h, g \in Holders :
    /\ h # g /\ ptr[h] # Null /\ ptr[g] = ptr[h]
    /\ Done(g, "get") /\ call[g].nretr = 1
    /\ Done(h, "wait") /\ call[h].branch = "Ready"
    /\ cell[ptr[h]].tag = "Ready"
    /\ retrievals[CompOf(h)] = 1

\* Holder h is constructed from a source in this step.
ConstructStep(h) == call'[h].op = "construct" /\ ~alive[h] /\ alive'[h]

\* Holder h is copied from another holder in this step.
CopyStep(h) == call'[h].op = "copy" /\ ~alive[h] /\ alive'[h]

\* C12: constructing from a valid source gives an adaptor with a fresh State
\* that is Pending and wraps the source's future; constructing from an invalid
\* source gives an adaptor with no State; neither raises an error; valid()
\* returns true exactly when the adaptor refers to a State, Pending or Ready.
C12_Construct ==
  [][\A h \in Holders :
       /\ ConstructStep(h) =>
            /\ ret'[h].kind = "void"
            /\ srcValid[call'[h].arg] =>
                 /\ ptr'[h] \in Cells
                 /\ cell[ptr'[h]].life = "free"
                 /\ \A g \in Holders \ {h} : ptr'[g] # ptr'[h]
                 /\ cell'[ptr'[h]].life = "live"
                 /\ cell'[ptr'[h]].tag = "Pending"
                 /\ cell'[ptr'[h]].futValid
                 /\ cell'[ptr'[h]].comp = call'[h].arg
                 /\ \A c \in Cells \ {ptr'[h]} : cell'[c] = cell[c]
            /\ ~srcValid[call'[h].arg] => (ptr'[h] = Null /\ cell' = cell)
       /\ (call'[h].op = "valid" /\ alive'[h]) =>
            /\ ret'[h] = [kind |-> "bool", val |-> BoolStr(ptr'[h] # Null)]
            /\ ptr'[h] # Null => cell'[ptr'[h]].tag \in {"Pending", "Ready"}]_vars

\* C12 witness: valid() returned true on an adaptor whose State is Ready, and
\* another adaptor was constructed with no State.
C12_Witness ==
  \E h, g \in Holders :
    /\ Done(h, "valid") /\ ptr[h] # Null /\ ret[h].val = "true"
    /\ cell[ptr[h]].tag = "Ready"
    /\ alive[g] /\ call[g].op = "construct" /\ ptr[g] = Null

\* C13: once the computation has completed, every wait() and get() in progress
\* on a valid adaptor can go on to return, also a get() that arrived while
\* another holder's get() was in the middle of the transition; and no wait()
\* or Pending-branch get() has returned before the computation completed.
\* (Stated for computations that give a value.)
C13_CallsReturn ==
  \A h \in Holders :
    (ptr[h] # Null /\ call[h].op \in {"wait", "get"}
       /\ outcome[CompOf(h)] # Failure) =>
      /\ (pc[h] # "idle" /\ completed[CompOf(h)]) => ENABLED Continue(h)
      /\ (Done(h, call[h].op) /\ call[h].branch = "Pending") => completed[CompOf(h)]

\* C14: no is_ready() or wait() calls the underlying future's is_ready() or
\* wait() after that future's consuming retrieval was invoked or the State
\* became Ready.  (Stated for computations that do not fail.)
C14_NoTornObservation ==
  [][\A h \in Holders :
       (pc[h] \in {"is_ready_call", "wait_call"} /\ pc'[h] # pc[h]
          /\ outcome[CompOf(h)] # Failure)
         => FutureUsable(ptr[h])]_vars

\* C15: once a State is Ready, the result it holds is never replaced.
C15_ResultImmutable ==
  [][\A c \in Cells :
       cell[c].tag = "Ready" => cell'[c].result = cell[c].result]_vars

\* C16: a State exists exactly as long as some adaptor refers to it: a copy
\* refers to the State of its origin and changes no State, destroying an
\* adaptor leaves every State that still has a holder unchanged, and a State
\* is destroyed when and only when its last holder is released.
C16_SharedLifetime ==
  [][/\ \A c \in Cells :
          /\ cell'[c].life = "live" <=> \E h \in Holders : alive'[h] /\ ptr'[h] = c
          /\ cell'[c].life = "destroyed" => cell[c].life \in {"live", "destroyed"}
          /\ cell[c].life = "destroyed" => cell'[c] = cell[c]
     /\ \A h \in Holders :
          /\ CopyStep(h) => (ptr'[h] = ptr[call'[h].arg] /\ cell' = cell)
          /\ (alive[h] /\ ~alive'[h]) =>
               \A c \in Cells :
                 (\E g \in Holders \ {h} : ptr[g] = c) => cell'[c] = cell[c]]_vars

\* C16 witness: the origin of a copy has been destroyed and the copy's State
\* is alive.
C16_Witness ==
  \E h, g \in Holders :
    /\ call[h].op = "copy" /\ call[h].arg = g /\ alive[h]
    /\ call[g].op = "destroy" /\ ~alive[g]
    /\ ptr[h] # Null /\ cell[ptr[h]].life = "live"

\* C17: an adaptor is valid or invalid from its construction on: no call
\* changes that, and a copy is valid exactly when its origin is.
C17_ValidityFixed ==
  [][\A h \in Holders :
       /\ (alive[h] /\ alive'[h]) => ((ptr'[h] = Null) <=> (ptr[h] = Null))
       /\ CopyStep(h) => ((ptr'[h] = Null) <=> (ptr[call'[h].arg] = Null))]_vars

\* C17 witness: a get() has failed on an adaptor that is still valid, and so
\* is its copy.
C17_Witness ==
  \E h, g \in Holders :
    /\ alive[h] /\ call[h].op = "copy" /\ call[h].arg = g
    /\ alive[g] /\ ptr[g] # Null /\ ptr[h] = ptr[g]
    /\ Done(g, "get") /\ call[g].thrown # "none"

\* C18: constructing from a valid source leaves the source invalid; a second
\* construction from that source gives an invalid adaptor; no two States wrap
\* the same computation.
C18_SourceMovedOnce ==
  [][/\ \A h \in Holders :
          ConstructStep(h) =>
            /\ srcValid[call'[h].arg] => ~srcValid'[call'[h].arg]
            /\ (\E c \in Cells : cell[c].life # "free" /\ cell[c].comp = call'[h].arg)
                 => ptr'[h] = Null
     /\ \A c, d \in Cells :
          (c # d /\ cell'[c].life # "free" /\ cell'[d].life # "free")
            => cell'[c].comp # cell'[d].comp]_vars

\* C18 witness: two adaptors were constructed from the same source; the first
\* has a State, the second has none.
C18_Witness ==
  \E h, g \in Holders :
    /\ h # g /\ alive[h] /\ alive[g]
    /\ call[h].op = "construct" /\ call[g].op = "construct"
    /\ call[h].arg = call[g].arg
    /\ ptr[h] # Null /\ ptr[g] = Null
    /\ ~srcValid[call[h].arg]
====
